---- MODULE Spec2Model ----
(***************************************************************************)
(* Model of evaluate_signal (src/agent.py): one evaluation of one input    *)
(* snapshot, stepped through the seven modules of the function.            *)
(*                                                                         *)
(* Numbers.  Prices and ATR are integers counted in ticks; Unit ticks make *)
(* one step of the 5-decimal grid that round(x, 5) rounds to, so a tick is *)
(* a fraction of 0.00001.  ATR inputs are even numbers of ticks, so that   *)
(* 1.5 * ATR is a whole number of ticks.  A value exactly half way between *)
(* two grid points is rounded either way: the binary double nearest to     *)
(* such a decimal lies on one side or the other, and round() follows it.   *)
(* RSI values are whole numbers; rrr is counted in hundredths.             *)
(*                                                                         *)
(* A mapping entry is a record [k, v]: k = "absent" (key not in data),     *)
(* k = "none" (key present, value None) or k = "val" (value v).            *)
(***************************************************************************)
EXTENDS Integers, Sequences, FiniteSets, TLC

VARIABLES data, pc, trend, use_htf_trend, confluence_count, confluence_details,
          rsi_confluence_met, candle_confluence_met, pattern_confluence_met,
          trend_confluence_met, signal_direction, sl_distance, tp_distance,
          entry_price, stop_loss, take_profit, rrr, confidence_score,
          exception, result

vars == <<data, pc, trend, use_htf_trend, confluence_count, confluence_details,
          rsi_confluence_met, candle_confluence_met, pattern_confluence_met,
          trend_confluence_met, signal_direction, sl_distance, tp_distance,
          entry_price, stop_loss, take_profit, rrr, confidence_score,
          exception, result>>

\* ------------------------------------------------------------------------
\* Bounds of the explored inputs
\* ------------------------------------------------------------------------
\* close ranges over BasePrice + 0 .. BasePrice + 2 * MaxPriceStep ticks
MaxPriceStep == 4
\* ATR ranges over -2, 0, 2, ..., 2 * MaxATRStep ticks
MaxATRStep == 4
\* swing levels lie up to MaxSwingStep * 5 ticks away from BasePrice
MaxSwingStep == 2

\* ------------------------------------------------------------------------
\* Values
\* ------------------------------------------------------------------------
\* ticks per 0.00001 (the grid of round(x, 5))
Unit == 8
BasePrice == 2 * Unit

AbsentN == [k |-> "absent", v |-> 0]
NoneN == [k |-> "none", v |-> 0]
AbsentS == [k |-> "absent", v |-> ""]
NoneS == [k |-> "none", v |-> ""]
AbsentB == [k |-> "absent", v |-> FALSE]
Val(x) == [k |-> "val", v |-> x]

\* data.get(key, default) for a key whose default is None: absent and None agree
Present(f) == f.k = "val"

\* truthiness of data.get(key, None) for a string value
TruthyS(f) == f.k = "val" /\ f.v # ""

\* truthiness of data.get(key, False) for a boolean value
TruthyB(f) == f.k = "val" /\ f.v

\* str.lower() on the tags the inputs are drawn from
Lower(s) ==
    CASE s = "HAMMER" -> "hammer"
      [] s = "Shooting_Star" -> "shooting_star"
      [] s = "Double_Bottom" -> "double_bottom"
      [] s = "DOUBLE_TOP" -> "double_top"
      [] OTHER -> s

Max(a, b) == IF a > b THEN a ELSE b
Abs(a) == IF a < 0 THEN -a ELSE a

\* the list with one field left out
required_fields_NoLow ==
    <<"instrument", "timeframe", "close", "high", "RSI", "ATR">>

required_fields ==
    <<"instrument", "timeframe", "close", "high", "low", "RSI", "ATR">>

bullish_candles == {"hammer", "bullish_engulfing", "morning_star", "bullish_pin_bar"}
bearish_candles == {"shooting_star", "bearish_engulfing", "evening_star", "bearish_pin_bar"}
bullish_patterns == {"double_bottom", "inverse_head_shoulders", "ascending_triangle",
                     "bullish_flag", "cup_and_handle"}
bearish_patterns == {"double_top", "head_shoulders", "descending_triangle",
                     "bearish_flag", "rising_wedge"}

\* the requirement before it was reduced to 2
min_confluences_Three == 3
min_confluences == 2
min_confidence == 60
max_confidence == 95

\* ------------------------------------------------------------------------
\* Input snapshots
\* ------------------------------------------------------------------------
RSIVals == {5, 6, 20, 21, 30, 31, 40, 41, 49, 50, 59, 60, 69, 70, 80, 95}

CloseVals == {BasePrice + 2 * i : i \in 0..MaxPriceStep}
ATRVals == {2 * i : i \in -1..MaxATRStep}
SwingLowVals == {BasePrice - 5 * i : i \in -1..MaxSwingStep}
SwingHighVals == {BasePrice + 5 * i : i \in 0..(MaxSwingStep + 1)}

DefaultSnapshot ==
    [instrument |-> Val("EURUSD"), timeframe |-> Val("1H"), timestamp |-> AbsentS,
     close |-> Val(BasePrice), high |-> Val(BasePrice + Unit),
     low |-> Val(BasePrice - Unit), RSI |-> Val(25), ATR |-> Val(Unit),
     RSI_DAILY |-> AbsentN, EMA50_daily |-> AbsentN, strict_mode |-> AbsentB,
     candle_type |-> AbsentS, pattern |-> AbsentS, divergence |-> AbsentB,
     recent_swing_low |-> AbsentN, recent_swing_high |-> AbsentN]

\* every combination of missing / None / given for the seven required fields
ValidationSnapshot(d) ==
    \E i \in {AbsentS, NoneS, Val("EURUSD")},
        t \in {AbsentS, NoneS, Val("1H")},
        c \in {AbsentN, NoneN, Val(BasePrice)},
        h \in {AbsentN, NoneN, Val(BasePrice + Unit)},
        l \in {AbsentN, NoneN, Val(BasePrice - Unit)},
        r \in {AbsentN, NoneN, Val(25)},
        a \in {AbsentN, NoneN, Val(Unit)},
        ts \in {AbsentS, Val("t0")},
        dv \in {AbsentB, Val(TRUE)} :
      d = [DefaultSnapshot EXCEPT !.instrument = i, !.timeframe = t, !.close = c,
                                  !.high = h, !.low = l, !.RSI = r, !.ATR = a,
                                  !.timestamp = ts, !.divergence = dv]

\* valid snapshots over the inputs of the trend filter, the confluences and the score
ConfluenceSnapshot(d) ==
    \E r \in RSIVals,
        e \in {AbsentN, NoneN, Val(BasePrice - 2), Val(BasePrice), Val(BasePrice + 2)},
        sm \in {AbsentB, Val(TRUE)},
        ct \in {AbsentS, Val(""), Val("HAMMER"), Val("Shooting_Star"), Val("doji")},
        pt \in {AbsentS, Val("Double_Bottom"), Val("DOUBLE_TOP"), Val("wedge")},
        dv \in {AbsentB, Val(TRUE)},
        rd \in {AbsentN, NoneN, Val(30), Val(50), Val(70)} :
      d = [DefaultSnapshot EXCEPT !.RSI = Val(r), !.EMA50_daily = e,
                                  !.strict_mode = sm, !.candle_type = ct,
                                  !.pattern = pt, !.divergence = dv, !.RSI_DAILY = rd]

\* valid snapshots over the inputs of the stop / target computation
RiskSnapshot(d) ==
    \E c \in CloseVals,
        a \in ATRVals,
        r \in {25, 45, 75},
        ct \in {Val("hammer"), Val("shooting_star")},
        dv \in {AbsentB, Val(TRUE)},
        lo \in {AbsentN, NoneN} \cup {Val(x) : x \in SwingLowVals},
        hi \in {AbsentN, NoneN} \cup {Val(x) : x \in SwingHighVals} :
      d = [DefaultSnapshot EXCEPT !.close = Val(c), !.ATR = Val(a), !.RSI = Val(r),
                                  !.candle_type = ct, !.divergence = dv,
                                  !.recent_swing_low = lo, !.recent_swing_high = hi]

\* the snapshots an evaluation is started on
Snapshot(d) == ValidationSnapshot(d) \/ ConfluenceSnapshot(d) \/ RiskSnapshot(d)

\* ------------------------------------------------------------------------
\* Decision records
\* ------------------------------------------------------------------------
\* data.get(key): the value, or None when the key is absent
GetS(f) == IF f.k = "val" THEN f ELSE NoneS

NoMessage == [kind |-> "", items |-> <<>>, failed |-> <<>>, count |-> 0]

NoResult ==
    [status |-> "", reason |-> "", entry |-> NoneN, stop_loss |-> NoneN,
     take_profit |-> NoneN, rrr |-> NoneN, confidence |-> 0, message |-> NoMessage,
     instrument |-> NoneS, timeframe |-> NoneS, timestamp |-> NoneS]

\* a rejection that leaves the computed ratio in the record
NoTrade_KeepsRrr(d, reason, confidence, message) ==
    [status |-> "no_trade", reason |-> reason, entry |-> NoneN, stop_loss |-> NoneN,
     take_profit |-> NoneN, rrr |-> Val(200), confidence |-> confidence,
     message |-> message,
     instrument |-> GetS(d.instrument), timeframe |-> GetS(d.timeframe),
     timestamp |-> GetS(d.timestamp)]

\* the "no_trade" record returned by every rejection
NoTrade(d, reason, confidence, message) ==
    [status |-> "no_trade", reason |-> reason, entry |-> NoneN, stop_loss |-> NoneN,
     take_profit |-> NoneN, rrr |-> NoneN, confidence |-> confidence,
     message |-> message,
     instrument |-> GetS(d.instrument), timeframe |-> GetS(d.timeframe),
     timestamp |-> GetS(d.timestamp)]

\* the record returned for a tradable signal
Signal(d, direction, entry, sl, tp, r, confidence, message) ==
    [status |-> direction, reason |-> "all_conditions_met", entry |-> Val(entry),
     stop_loss |-> Val(sl), take_profit |-> Val(tp), rrr |-> Val(r),
     confidence |-> confidence, message |-> message,
     instrument |-> GetS(d.instrument), timeframe |-> GetS(d.timeframe),
     timestamp |-> GetS(d.timestamp)]

\* ------------------------------------------------------------------------
\* MODULE 1: data validation
\* ------------------------------------------------------------------------
MissingFields(d) == SelectSeq(required_fields, LAMBDA f : d[f].k = "absent")
NoneFields(d) == SelectSeq(required_fields, LAMBDA f : d[f].k = "none")

Init ==
    /\ Snapshot(data)
    /\ pc = "validate"
    /\ trend = ""
    /\ use_htf_trend = FALSE
    /\ confluence_count = 0
    /\ confluence_details = <<>>
    /\ rsi_confluence_met = FALSE
    /\ candle_confluence_met = FALSE
    /\ pattern_confluence_met = FALSE
    /\ trend_confluence_met = FALSE
    /\ signal_direction = ""
    /\ sl_distance = 0
    /\ tp_distance = 0
    /\ entry_price = 0
    /\ stop_loss = 0
    /\ take_profit = 0
    /\ rrr = 0
    /\ confidence_score = 0
    /\ exception = ""
    /\ result = NoResult

Return(r) == pc' = "done" /\ result' = r

Validate ==
    /\ pc = "validate"
    /\ IF MissingFields(data) # <<>>
         THEN Return(NoTrade(data, "data_invalid", 0,
                  [kind |-> "missing", items |-> MissingFields(data),
                   failed |-> <<>>, count |-> 0]))
         ELSE IF NoneFields(data) # <<>>
         THEN Return(NoTrade(data, "data_invalid", 0,
                  [kind |-> "none", items |-> NoneFields(data),
                   failed |-> <<>>, count |-> 0]))
         ELSE pc' = "trend" /\ UNCHANGED result
    /\ UNCHANGED <<data, trend, use_htf_trend, confluence_count, confluence_details,
                   rsi_confluence_met, candle_confluence_met, pattern_confluence_met,
                   trend_confluence_met, signal_direction, sl_distance, tp_distance,
                   entry_price, stop_loss, take_profit, rrr, confidence_score,
                   exception>>

\* ------------------------------------------------------------------------
\* MODULE 2: trend filter
\* ------------------------------------------------------------------------
UseHtfTrend(d) == d.EMA50_daily.k # "absent" /\ d.EMA50_daily.k # "none"

\* the comparison with the EMA made non-strict
Trend_NonStrict(d) ==
    IF UseHtfTrend(d)
      THEN IF d.close.v >= d.EMA50_daily.v THEN "bullish" ELSE "bearish"
      ELSE IF d.RSI.v < 50 THEN "bullish" ELSE "bearish"

Trend(d) ==
    IF UseHtfTrend(d)
      THEN IF d.close.v > d.EMA50_daily.v THEN "bullish" ELSE "bearish"
      ELSE IF d.RSI.v < 50 THEN "bullish" ELSE "bearish"

TrendFilter ==
    /\ pc = "trend"
    /\ use_htf_trend' = UseHtfTrend(data)
    /\ trend' = Trend(data)
    /\ pc' = "confluence"
    /\ UNCHANGED <<data, confluence_count, confluence_details,
                   rsi_confluence_met, candle_confluence_met, pattern_confluence_met,
                   trend_confluence_met, signal_direction, sl_distance, tp_distance,
                   entry_price, stop_loss, take_profit, rrr, confidence_score,
                   exception, result>>

\* ------------------------------------------------------------------------
\* MODULE 3: confluence analysis
\* ------------------------------------------------------------------------
StrictMode(d) == TruthyB(d.strict_mode)

\* confluence 1: RSI extreme
RsiConfluenceMet(d, tr) ==
    IF tr = "bullish"
      THEN IF StrictMode(d) THEN d.RSI.v <= 5 ELSE d.RSI.v <= 30
      ELSE IF StrictMode(d) THEN d.RSI.v >= 95 ELSE d.RSI.v >= 70

RsiDetails(d, tr) ==
    IF ~RsiConfluenceMet(d, tr) THEN <<>>
    ELSE IF tr = "bullish"
      THEN IF StrictMode(d) THEN <<"RSI extremely oversold">> ELSE <<"RSI oversold">>
      ELSE IF StrictMode(d) THEN <<"RSI extremely overbought">> ELSE <<"RSI overbought">>

\* confluence 2: candle confirmation
CandleConfluenceMet(d, tr) ==
    /\ TruthyS(d.candle_type)
    /\ \/ tr = "bullish" /\ Lower(d.candle_type.v) \in bullish_candles
       \/ tr = "bearish" /\ Lower(d.candle_type.v) \in bearish_candles

CandleDetails(d, tr) ==
    IF ~CandleConfluenceMet(d, tr) THEN <<>>
    ELSE IF tr = "bullish" THEN <<"Bullish candle pattern">>
    ELSE <<"Bearish candle pattern">>

\* confluence 3: pattern or divergence
PatternMatches(d, tr) ==
    /\ TruthyS(d.pattern)
    /\ \/ tr = "bullish" /\ Lower(d.pattern.v) \in bullish_patterns
       \/ tr = "bearish" /\ Lower(d.pattern.v) \in bearish_patterns

Divergence(d) == TruthyB(d.divergence)

PatternConfluenceMet(d, tr) == PatternMatches(d, tr) \/ Divergence(d)

PatternDetails(d, tr) ==
    (IF ~PatternMatches(d, tr) THEN <<>>
     ELSE IF tr = "bullish" THEN <<"Bullish pattern">> ELSE <<"Bearish pattern">>)
    \o (IF Divergence(d) THEN <<"Price/RSI divergence detected">> ELSE <<>>)

\* confluence 4: higher timeframe alignment
HasHtfRsi(d) == d.RSI_DAILY.k # "absent" /\ d.RSI_DAILY.k # "none"

TrendConfluenceMet(d, tr) ==
    IF HasHtfRsi(d)
      THEN IF tr = "bullish" THEN d.RSI_DAILY.v < 70 ELSE d.RSI_DAILY.v > 30
      ELSE TRUE

TrendDetails(d, tr) ==
    IF ~TrendConfluenceMet(d, tr) THEN <<>>
    ELSE IF HasHtfRsi(d) THEN <<"HTF trend aligned">>
    ELSE <<"HTF alignment: not required (no HTF data)">>

One(b) == IF b THEN 1 ELSE 0

ConfluenceCount(d, tr) ==
    One(RsiConfluenceMet(d, tr)) + One(CandleConfluenceMet(d, tr))
      + One(PatternConfluenceMet(d, tr)) + One(TrendConfluenceMet(d, tr))

ConfluenceDetails(d, tr) ==
    RsiDetails(d, tr) \o CandleDetails(d, tr) \o PatternDetails(d, tr)
      \o TrendDetails(d, tr)

ConfluenceAnalysis ==
    /\ pc = "confluence"
    /\ rsi_confluence_met' = RsiConfluenceMet(data, trend)
    /\ candle_confluence_met' = CandleConfluenceMet(data, trend)
    /\ pattern_confluence_met' = PatternConfluenceMet(data, trend)
    /\ trend_confluence_met' = TrendConfluenceMet(data, trend)
    /\ confluence_count' = ConfluenceCount(data, trend)
    /\ confluence_details' = ConfluenceDetails(data, trend)
    /\ pc' = "gate"
    /\ UNCHANGED <<data, trend, use_htf_trend, signal_direction, sl_distance,
                   tp_distance, entry_price, stop_loss, take_profit, rrr,
                   confidence_score, exception, result>>

\* the explanations of the confluences that were not met
FailedConfluences(d, tr) ==
    (IF RsiConfluenceMet(d, tr) THEN <<>>
     ELSE IF tr = "bullish" THEN <<"RSI not oversold">> ELSE <<"RSI not overbought">>)
    \o (IF CandleConfluenceMet(d, tr) THEN <<>>
        ELSE IF TruthyS(d.candle_type)
          THEN <<"Candle pattern does not support trend">>
          ELSE <<"No candle confirmation provided">>)
    \o (IF PatternConfluenceMet(d, tr) THEN <<>>
        ELSE <<"No chart pattern or divergence detected">>)
    \o (IF TrendConfluenceMet(d, tr) \/ d.RSI_DAILY.k = "absent" THEN <<>>
        ELSE IF tr = "bullish" THEN <<"HTF RSI too high">> ELSE <<"HTF RSI too low">>)

\* confidence_map.get(confluence_count, 0)
ConfidenceMap(n) == IF n = 1 THEN 35 ELSE 0

ConfluenceCheck ==
    /\ pc = "gate"
    /\ IF confluence_count < min_confluences
         THEN Return(NoTrade(data, "not_enough_confluences",
                  ConfidenceMap(confluence_count),
                  [kind |-> "not_enough_confluences", items |-> confluence_details,
                   failed |-> FailedConfluences(data, trend),
                   count |-> confluence_count]))
         ELSE pc' = "risk" /\ UNCHANGED result
    /\ UNCHANGED <<data, trend, use_htf_trend, confluence_count, confluence_details,
                   rsi_confluence_met, candle_confluence_met, pattern_confluence_met,
                   trend_confluence_met, signal_direction, sl_distance, tp_distance,
                   entry_price, stop_loss, take_profit, rrr, confidence_score,
                   exception>>

\* ------------------------------------------------------------------------
\* MODULE 4 and MODULE 5: entry, stop loss and take profit
\* ------------------------------------------------------------------------
SignalDirection(tr) == IF tr = "bullish" THEN "long" ELSE "short"

\* 1.5 * atr, in ticks (atr is an even number of ticks)
BaseSlDistance(atr) == (3 * atr) \div 2

\* the swing level taken whenever it is given, also when it is nearer than the base
SlDistance_Narrows(d, direction) ==
    LET base == BaseSlDistance(d.ATR.v)
        entry == d.close.v
    IN  IF direction = "long" /\ Present(d.recent_swing_low)
          THEN entry - d.recent_swing_low.v
        ELSE IF direction = "short" /\ Present(d.recent_swing_high)
          THEN d.recent_swing_high.v - entry
        ELSE base

\* the stop distance: the ATR base, widened to the swing level when that is further
SlDistance(d, direction) ==
    LET base == BaseSlDistance(d.ATR.v)
        entry == d.close.v
    IN  IF direction = "long" /\ Present(d.recent_swing_low)
          THEN IF entry - d.recent_swing_low.v > base
                 THEN entry - d.recent_swing_low.v ELSE base
        ELSE IF direction = "short" /\ Present(d.recent_swing_high)
          THEN IF d.recent_swing_high.v - entry > base
                 THEN d.recent_swing_high.v - entry ELSE base
        ELSE base

\* a target at the same distance as the stop
TpDistance_OneToOne(sl) == sl

TpDistance(sl) == 2 * sl

StopLoss(direction, entry, sl) ==
    IF direction = "long" THEN entry - sl ELSE entry + sl

TakeProfit(direction, entry, tp) ==
    IF direction = "long" THEN entry + tp ELSE entry - tp

\* rounding to 4 decimals instead of 5
Round5_FourDecimals(x, up) ==
    LET r == x % (10 * Unit)
        lo == x - r
    IN  IF 2 * r < 10 * Unit THEN lo
        ELSE IF 2 * r > 10 * Unit THEN lo + 10 * Unit
        ELSE IF up THEN lo + 10 * Unit ELSE lo

\* round(x, 5): the nearest multiple of Unit; up says which way a half-way value goes
Round5(x, up) ==
    LET r == x % Unit
        lo == x - r
    IN  IF 2 * r < Unit THEN lo
        ELSE IF 2 * r > Unit THEN lo + Unit
        ELSE IF up THEN lo + Unit ELSE lo

\* round(tp / sl, 2) in hundredths, for sl # 0
Rrr(tp, sl) ==
    LET n == IF sl < 0 THEN -(100 * tp) ELSE 100 * tp
        m == Abs(sl)
    IN  (2 * n + m) \div (2 * m)

RiskCalculation ==
    /\ pc = "risk"
    /\ signal_direction' = SignalDirection(trend)
    /\ sl_distance' = SlDistance(data, signal_direction')
    /\ tp_distance' = TpDistance(sl_distance')
    /\ IF sl_distance' = 0
         THEN \* tp_distance / sl_distance divides by zero
              /\ pc' = "raised"
              /\ exception' = "ZeroDivisionError"
              /\ entry_price' = data.close.v
              /\ stop_loss' = StopLoss(signal_direction', data.close.v, sl_distance')
              /\ take_profit' = TakeProfit(signal_direction', data.close.v, tp_distance')
              /\ UNCHANGED rrr
         ELSE \E ue, us, ut \in BOOLEAN :
              /\ pc' = "confidence"
              /\ entry_price' = Round5(data.close.v, ue)
              /\ stop_loss' =
                   Round5(StopLoss(signal_direction', data.close.v, sl_distance'), us)
              /\ take_profit' =
                   Round5(TakeProfit(signal_direction', data.close.v, tp_distance'), ut)
              /\ rrr' = Rrr(tp_distance', sl_distance')
              /\ UNCHANGED exception
    /\ UNCHANGED <<data, trend, use_htf_trend, confluence_count, confluence_details,
                   rsi_confluence_met, candle_confluence_met, pattern_confluence_met,
                   trend_confluence_met, confidence_score, result>>

\* ------------------------------------------------------------------------
\* MODULE 6: confidence scoring
\* ------------------------------------------------------------------------
\* the proportional formula of the fallback used for every count
ConfluencePercentage_Linear(n) == (n * 40) \div 4

ConfluencePercentage(n) ==
    CASE n = 2 -> 28
      [] n = 3 -> 34
      [] n = 4 -> 38
      [] OTHER -> (n * 40) \div 4

RsiScore(tr, rsi) ==
    IF tr = "bullish"
      THEN IF rsi <= 20 THEN 30
           ELSE IF rsi <= 30 THEN 25
           ELSE IF rsi <= 40 THEN 18
           ELSE 10
      ELSE IF rsi >= 80 THEN 30
           ELSE IF rsi >= 70 THEN 25
           ELSE IF rsi >= 60 THEN 18
           ELSE 10

PatternScore(candle_met, pattern_met) ==
    IF candle_met /\ pattern_met THEN 30
    ELSE IF candle_met \/ pattern_met THEN 20
    ELSE 10

\* the three components are whole numbers, which round(score, 1) leaves as they are
ConfidenceScore(n, tr, rsi, candle_met, pattern_met) ==
    ConfluencePercentage(n) + RsiScore(tr, rsi) + PatternScore(candle_met, pattern_met)

\* the score passed on without the cap
CapConfidence_NoCap(score) == score

CapConfidence(score) == IF score > max_confidence THEN max_confidence ELSE score

ConfidenceScoring ==
    /\ pc = "confidence"
    /\ LET score == ConfidenceScore(confluence_count, trend, data.RSI.v,
                                    candle_confluence_met, pattern_confluence_met)
       IN  IF score < min_confidence
             THEN /\ confidence_score' = score
                  /\ Return(NoTrade(data, "confidence_too_low", score,
                       [kind |-> "confidence_too_low", items |-> <<>>,
                        failed |-> <<>>, count |-> score]))
             ELSE /\ confidence_score' = CapConfidence(score)
                  /\ pc' = "final"
                  /\ UNCHANGED result
    /\ UNCHANGED <<data, trend, use_htf_trend, confluence_count, confluence_details,
                   rsi_confluence_met, candle_confluence_met, pattern_confluence_met,
                   trend_confluence_met, signal_direction, sl_distance, tp_distance,
                   entry_price, stop_loss, take_profit, rrr, exception>>

\* ------------------------------------------------------------------------
\* MODULE 7: final decision and risk checks
\* ------------------------------------------------------------------------
RiskInvalid(direction, entry, sl, tp) ==
    IF direction = "long"
      THEN sl >= entry \/ tp <= entry
      ELSE sl <= entry \/ tp >= entry

FinalDecision ==
    /\ pc = "final"
    /\ IF RiskInvalid(signal_direction, entry_price, stop_loss, take_profit)
         THEN Return(NoTrade(data, "invalid_risk_parameters", confidence_score,
                  [kind |-> "invalid_risk_parameters", items |-> <<signal_direction>>,
                   failed |-> <<>>, count |-> 0]))
         ELSE Return(Signal(data, signal_direction, entry_price, stop_loss,
                  take_profit, rrr, confidence_score,
                  [kind |-> "all_conditions_met", items |-> confluence_details,
                   failed |-> <<>>, count |-> confluence_count]))
    /\ UNCHANGED <<data, trend, use_htf_trend, confluence_count, confluence_details,
                   rsi_confluence_met, candle_confluence_met, pattern_confluence_met,
                   trend_confluence_met, signal_direction, sl_distance, tp_distance,
                   entry_price, stop_loss, take_profit, rrr, confidence_score,
                   exception>>

Next ==
    \/ Validate
    \/ TrendFilter
    \/ ConfluenceAnalysis
    \/ ConfluenceCheck
    \/ RiskCalculation
    \/ ConfidenceScoring
    \/ FinalDecision

Spec == Init /\ [][Next]_vars

\* ------------------------------------------------------------------------
\* Properties
\* ------------------------------------------------------------------------
RequiredNames == {"instrument", "timeframe", "close", "high", "low", "RSI", "ATR"}
Reasons == {"data_invalid", "not_enough_confluences", "confidence_too_low",
            "invalid_risk_parameters", "all_conditions_met"}

Returned == pc = "done"
AllRequiredGiven == \A f \in RequiredNames : data[f].k = "val"
Accepted == Returned /\ result.status \in {"long", "short"}
RiskFields == <<result.entry, result.stop_loss, result.take_profit, result.rrr>>

\* C1: evaluate_signal never raises; every evaluation ends by returning a record
\* whose reason is one of the five codes.  Stated for the case the claim singles
\* out: a snapshot that passes validation with ATR = 0 and no swing level.
C1_NeverRaises ==
    (/\ AllRequiredGiven
     /\ data.ATR.v = 0
     /\ data.recent_swing_low.k # "val"
     /\ data.recent_swing_high.k # "val") =>
      /\ pc # "raised"
      /\ Returned => result.reason \in Reasons

\* C2: whenever evaluate_signal returns, status is one of long, short, no_trade,
\* and entry, stop_loss, take_profit and rrr are all null for no_trade and all
\* non-null for long and short.
C2_StatusAndNullness ==
    Returned =>
      /\ result.status \in {"long", "short", "no_trade"}
      /\ result.status = "no_trade" => \A i \in 1..4 : RiskFields[i].k = "none"
      /\ result.status \in {"long", "short"} => \A i \in 1..4 : RiskFields[i].k = "val"

C2_Witness ==
    /\ Returned
    /\ result.status = "short"
    /\ \A i \in 1..4 : RiskFields[i].k = "val"

\* C3: a snapshot with a required field missing or null is answered with
\* no_trade, data_invalid and confidence 0, whatever the other fields hold; a
\* snapshot with all seven required fields given is never answered data_invalid.
C3_DataInvalid ==
    Returned =>
      /\ ~AllRequiredGiven =>
           /\ result.status = "no_trade"
           /\ result.reason = "data_invalid"
           /\ result.confidence = 0
      /\ AllRequiredGiven => result.reason # "data_invalid"

C3_Witness ==
    /\ Returned
    /\ data.low.k = "none"
    /\ \A f \in RequiredNames \ {"low"} : data[f].k = "val"
    /\ Divergence(data)
    /\ result.reason = "data_invalid"

\* C4: every accepted signal has rrr = 2.00 and prices strictly ordered around
\* entry: stop_loss < entry < take_profit for long, take_profit < entry <
\* stop_loss for short.
C4_RrrAndOrder ==
    Accepted =>
      /\ result.rrr.v = 200
      /\ result.status = "long" =>
           /\ result.stop_loss.v < result.entry.v
           /\ result.entry.v < result.take_profit.v
      /\ result.status = "short" =>
           /\ result.take_profit.v < result.entry.v
           /\ result.entry.v < result.stop_loss.v

C4_Witness ==
    /\ Accepted
    /\ result.status = "short"
    /\ Present(data.recent_swing_high)
    /\ sl_distance = data.recent_swing_high.v - data.close.v
    /\ sl_distance > BaseSlDistance(data.ATR.v)
    /\ result.rrr.v = 200

\* the score of module 6 before the cap, from the values the evaluation computed
RawScore ==
    ConfidenceScore(confluence_count, trend, data.RSI.v,
                    candle_confluence_met, pattern_confluence_met)
Scored ==
    /\ Returned
    /\ result.reason \in {"confidence_too_low", "invalid_risk_parameters",
                          "all_conditions_met"}

\* C5: the reported confidence never exceeds 95; an accepted signal carries a
\* confidence between 60 and 95; a snapshot that reaches scoring with a score
\* below 60 is rejected with confidence_too_low and reports that score.
C5_ConfidenceBounds ==
    /\ Returned => result.confidence <= 95
    /\ Accepted => result.confidence >= 60 /\ result.confidence <= 95
    /\ (Scored /\ RawScore < 60) =>
         /\ result.reason = "confidence_too_low"
         /\ result.confidence = RawScore
         /\ result.confidence # 0
    /\ (Returned /\ result.reason = "confidence_too_low") => RawScore < 60

C5_Witness ==
    /\ Accepted
    /\ RawScore > 95
    /\ result.confidence = 95

C5_WitnessTooLow ==
    /\ Returned
    /\ result.reason = "confidence_too_low"
    /\ result.confidence = 58

\* the number of the four confluences that hold
NumMet ==
    One(rsi_confluence_met) + One(candle_confluence_met)
      + One(pattern_confluence_met) + One(trend_confluence_met)

\* C6: for a snapshot that passes validation the reason is
\* not_enough_confluences exactly when fewer than 2 of the four confluences
\* hold; the confidence is then 0 when none holds and 35 when one holds.
C6_ConfluenceGate ==
    (Returned /\ AllRequiredGiven) =>
      /\ result.reason = "not_enough_confluences" <=> NumMet < 2
      /\ result.reason = "not_enough_confluences" =>
           /\ NumMet = 0 => result.confidence = 0
           /\ NumMet = 1 => result.confidence = 35
           /\ result.confidence \in {0, 35}

C6_Witness ==
    /\ Returned
    /\ AllRequiredGiven
    /\ result.reason = "not_enough_confluences"
    /\ NumMet = 0
    /\ result.confidence = 0

C6_WitnessOne ==
    /\ Returned
    /\ AllRequiredGiven
    /\ result.reason = "not_enough_confluences"
    /\ NumMet = 1
    /\ result.confidence = 35

\* C7: the direction of an accepted signal follows the trend rule: with
\* EMA50_daily given, long only if close > EMA50_daily and short only if
\* close <= EMA50_daily, whatever RSI is; without it, long only if RSI < 50 and
\* short only if RSI >= 50.
C7_DirectionFollowsTrend ==
    Accepted =>
      IF data.EMA50_daily.k = "val"
        THEN /\ result.status = "long" => data.close.v > data.EMA50_daily.v
             /\ result.status = "short" => data.close.v <= data.EMA50_daily.v
        ELSE /\ result.status = "long" => data.RSI.v < 50
             /\ result.status = "short" => data.RSI.v >= 50

C7_Witness ==
    /\ Accepted
    /\ result.status = "short"
    /\ data.EMA50_daily.k = "val"
    /\ data.close.v = data.EMA50_daily.v
    /\ data.RSI.v < 50

\* the distance from entry to the swing level of the signal's side, or the ATR
\* base when that level is not given
StructuralDistance ==
    IF result.status = "long" /\ data.recent_swing_low.k = "val"
      THEN data.close.v - data.recent_swing_low.v
    ELSE IF result.status = "short" /\ data.recent_swing_high.k = "val"
      THEN data.recent_swing_high.v - data.close.v
    ELSE (3 * data.ATR.v) \div 2

\* C8: for an accepted signal the stop distance is max(1.5 * ATR, structural
\* distance); so |entry - stop_loss| >= 1.5 * ATR up to the rounding, and
\* take_profit lies at twice the stop distance on the other side of entry.
C8_StopNeverNarrowed ==
    Accepted =>
      /\ sl_distance = Max((3 * data.ATR.v) \div 2, StructuralDistance)
      /\ Abs(result.entry.v - result.stop_loss.v) + Unit >= (3 * data.ATR.v) \div 2
      /\ Abs(Abs(result.entry.v - result.stop_loss.v) - sl_distance) <= Unit
      /\ Abs(Abs(result.take_profit.v - result.entry.v) - 2 * sl_distance) <= Unit
      /\ (result.stop_loss.v < result.entry.v) = (result.take_profit.v > result.entry.v)
      /\ (result.stop_loss.v > result.entry.v) = (result.take_profit.v < result.entry.v)

C8_Witness ==
    /\ Accepted
    /\ result.status = "long"
    /\ data.recent_swing_low.k = "val"
    /\ data.close.v - data.recent_swing_low.v > 0
    /\ data.close.v - data.recent_swing_low.v < (3 * data.ATR.v) \div 2
    /\ sl_distance = (3 * data.ATR.v) \div 2

\* C9 as stated: a snapshot that passes validation with ATR > 0 is never
\* answered invalid_risk_parameters.
C9_GateUnreachable ==
    (Returned /\ AllRequiredGiven /\ data.ATR.v > 0) =>
      result.reason # "invalid_risk_parameters"

\* C9 as amended: a snapshot that passes validation with 1.5 * ATR greater than
\* one step of the 5-decimal grid (0.00001) is never answered
\* invalid_risk_parameters.
C9_GateUnreachableAboveGrid ==
    (Returned /\ AllRequiredGiven /\ (3 * data.ATR.v) \div 2 > Unit) =>
      result.reason # "invalid_risk_parameters"

C9_Witness ==
    /\ Accepted
    /\ (3 * data.ATR.v) \div 2 > Unit
    /\ (3 * data.ATR.v) \div 2 < 2 * Unit
    /\ 2 * (data.close.v % Unit) = Unit
    /\ result.entry.v < data.close.v

\* C10: the number of justification strings collected, as listed in the success
\* message and in the "Met:" part of the not_enough_confluences message, equals
\* the confluence count.
C10_OneDetailPerConfluence ==
    (Returned /\ result.reason \in {"all_conditions_met", "not_enough_confluences"}) =>
      /\ Len(result.message.items) = result.message.count
      /\ Len(confluence_details) = confluence_count

\* C11: a confidence_too_low rejection happens only with exactly 2 confluences
\* and reports confidence 58.  For a snapshot that passes validation, a count
\* of 3 or 4 is never answered confidence_too_low; and when the reason is
\* confidence_too_low the count is 2, the RSI confluence is unmet with RSI in
\* the weakest bucket (RSI > 40 for bullish, RSI < 60 for bearish), exactly one
\* of candle and pattern-or-divergence is met, the higher-timeframe confluence
\* is met, and confidence is 28 + 10 + 20 = 58.
C11_TooLowOnlyAt58 ==
    (Returned /\ AllRequiredGiven) =>
      /\ NumMet \in {3, 4} => result.reason # "confidence_too_low"
      /\ result.reason = "confidence_too_low" =>
           /\ NumMet = 2
           /\ confluence_count = 2
           /\ ~rsi_confluence_met
           /\ trend = "bullish" => data.RSI.v > 40
           /\ trend = "bearish" => data.RSI.v < 60
           /\ candle_confluence_met # pattern_confluence_met
           /\ trend_confluence_met
           /\ result.confidence = 58

C11_Witness ==
    /\ Returned
    /\ AllRequiredGiven
    /\ result.reason = "confidence_too_low"
    /\ trend = "bearish"
    /\ data.EMA50_daily.k = "val"
    /\ data.RSI_DAILY.k = "val"
    /\ pattern_confluence_met
    /\ ~candle_confluence_met
    /\ result.confidence = 58

====
